---- MODULE Spec2Model ----
(***************************************************************************)
(* Model of user/config/config_gotls.go: GoTLSConfig.Check and the return- *)
(* site resolver behind it (findRetOffsets, decodeInstruction).            *)
(*                                                                         *)
(* One call of Check is followed from the open of the ELF file to the      *)
(* value it returns.  The ELF file is the input; the scan loop of          *)
(* decodeInstruction is followed one iteration at a time.                  *)
(***************************************************************************)
EXTENDS Integers, Sequences, FiniteSets, TLC

(***************************************************************************)
(* Bounds of the model.                                                    *)
(***************************************************************************)
\* longest static symbol table (.symtab) of an input file
MaxSymtab == 2
\* longest dynamic symbol table (.dynsym) of an input file
MaxDynsym == 1
\* longest amd64 function body, in bytes
MaxLen == 4
\* longest arm64 function body, in 4-byte words (a truncated tail may follow)
MaxWords == 3
\* width of the unsigned address arithmetic (uint64 in the source, narrowed)
WordBits == 8

UintMod == 2 ^ WordBits

(***************************************************************************)
(* Program constants.                                                      *)
(***************************************************************************)
Arm64armInstSize == 4
GoTlsReadFunc == "crypto/tls.(*Conn).Read"

\* debug/elf machine numbers read at line 84
EM_X86_64 == 62
EM_AARCH64 == 183
EM_RISCV == 243

(***************************************************************************)
(* Errors.  Every error value is a record [msg, args] so that errors of    *)
(* different origin compare; Nil is Go's nil error.                        *)
(***************************************************************************)
Err(m, a) == [msg |-> m, args |-> a]
Nil == Err("nil", <<>>)
ErrorGoBINNotFound == Err("The executable program (compiled by Golang) was not found", <<>>)
ErrorSymbolNotFound == Err("symbol not found", <<>>)
ErrorNoRetFound == Err("no RET instructions found", <<>>)
ErrNoSymbols == Err("no symbols found", <<>>)
ErrIfname == Err("'pcap' model used, please used -i flag to set ifname value.", <<>>)
ErrStat == Err("stat: no such file or directory", <<>>)
ErrElfOpen == Err("bad magic number", <<>>)
ErrSectionData == Err("section data unreadable", <<>>)
\* the two decoders' errors
ErrTruncated == Err("truncated instruction", <<>>)
ErrUnrecognized == Err("unrecognized instruction", <<>>)
ErrShort == Err("truncated instruction", <<"arm64">>)
ErrUnknown == Err("unknown instruction", <<"arm64">>)

MismatchMsg == "Go Application not match, want:%s, have:%s"
UnsupportMsg == "unsupport CPU arch :%s"

(***************************************************************************)
(* Go slices over sequences: s[lo:hi] and s[lo:].                          *)
(***************************************************************************)
Slice(s, lo, hi) == SubSeq(s, lo + 1, hi)
From(s, lo) == SubSeq(s, lo + 1, Len(s))

(***************************************************************************)
(* The instruction decoders the scan calls.  Both are stateless: one call  *)
(* decodes the instruction at the head of src and answers                 *)
(* [Len, Op, err].  The opcode tables are cut down to the encodings the    *)
(* input bytes of the model can form; the encodings are the real ones.     *)
(***************************************************************************)
Inst(n, op, e) == [Len |-> n, Op |-> op, err |-> e]

\* x86asm.Decode(src, 64):
\*   90        NOP             C3        RET
\*   C2 iw     RET imm16       6A ib     PUSH imm8
\*   06        PUSH ES, invalid in 64-bit mode
X86Decode(src) ==
    IF Len(src) = 0 THEN Inst(0, "", ErrTruncated)
    ELSE CASE src[1] = 144 -> Inst(1, "NOP", Nil)
           [] src[1] = 195 -> Inst(1, "RET", Nil)
           [] src[1] = 194 -> IF Len(src) >= 3 THEN Inst(3, "RET", Nil)
                              ELSE Inst(0, "", ErrTruncated)
           [] src[1] = 106 -> IF Len(src) >= 2 THEN Inst(2, "PUSH", Nil)
                              ELSE Inst(0, "", ErrTruncated)
           [] OTHER -> Inst(0, "", ErrUnrecognized)

\* arm64asm.Decode(src): the little-endian word src[0..3];
\*   RET Xn is the words w with w & 0xFFFFFC1F = 0xD65F0000,
\*   NOP is 0xD503201F, and the all-zero word decodes to nothing.
Arm64Decode(src) ==
    IF Len(src) < 4 THEN Inst(0, "", ErrShort)
    ELSE IF /\ src[4] = 214 /\ src[3] = 95
            /\ src[2] \div 4 = 0 /\ src[1] % 32 = 0
         THEN Inst(4, "RET", Nil)
    ELSE IF src[4] = 213 /\ src[3] = 3 /\ src[2] = 32 /\ src[1] = 31
         THEN Inst(4, "NOP", Nil)
    ELSE Inst(0, "", ErrUnknown)

(***************************************************************************)
(* Input files.                                                            *)
(***************************************************************************)
\* bytes an amd64 function body is made of
CodeBytes == {144, 195, 194, 106, 6}
\* words an arm64 function body is made of: RET (x30), RET x1, NOP, 0
Arm64Ret == <<192, 3, 95, 214>>
Arm64RetX1 == <<32, 0, 95, 214>>
Arm64Nop == <<31, 32, 3, 213>>
Arm64Zero == <<0, 0, 0, 0>>
Arm64Words == {Arm64Ret, Arm64RetX1, Arm64Nop, Arm64Zero}

SeqsUpTo(S, n) == UNION {[1..k -> S] : k \in 0..n}

RECURSIVE Flatten(_)
Flatten(ws) == IF Len(ws) = 0 THEN <<>> ELSE Head(ws) \o Flatten(Tail(ws))

Amd64Bodies == SeqsUpTo(CodeBytes, MaxLen)
\* whole words, then possibly the first 1..3 bytes of one more
Arm64Bodies ==
    {Flatten(ws) \o Slice(Arm64Ret, 0, t) : ws \in SeqsUpTo(Arm64Words, MaxWords), t \in 0..3}

Bodies(m) == IF m = EM_X86_64 THEN Amd64Bodies ELSE Arm64Bodies

\* elf.Symbol and elf.Section, the fields the resolver reads
Sym(n, v, sz, sec) == [Name |-> n, Value |-> v, Size |-> sz, Section |-> sec]
Sect(a, d, ok) == [Addr |-> a, Data |-> d, ReadOK |-> ok]
NoSymbol == Sym("", 0, 0, 0)

\* virtual address of the code section of every input file
TextAddr == 16
\* section table: 0 the null section, 1 the code, 2 a section whose
\* contents cannot be read (Data() returns an error)
SectionsOf(text) == << Sect(0, <<>>, TRUE), Sect(TextAddr, text, TRUE), Sect(TextAddr, text, FALSE) >>

File(m, st, dy, text) == [Machine |-> m, Symtab |-> st, Dynsym |-> dy, Sections |-> SectionsOf(text)]
NoFile == [Machine |-> 0, Symtab |-> <<>>, Dynsym |-> <<>>, Sections |-> <<>>]

\* Files that vary the function body: one symbol spanning the whole code.
CodeFiles ==
    UNION {{File(m, <<Sym(GoTlsReadFunc, TextAddr, Len(b), 1)>>, <<>>, b) : b \in Bodies(m)} :
              m \in {EM_X86_64, EM_AARCH64}}

\* Files that vary the symbol tables over one fixed code section per machine.
FixedText(m) ==
    IF m = EM_X86_64 THEN <<144, 195, 106, 195, 194, 195, 195, 195>>
    ELSE Arm64Nop \o Arm64Ret

OtherCaseName == "crypto/tls.(*conn).read"
Symbols ==
    { Sym(GoTlsReadFunc, TextAddr, 8, 1),       \* the whole section
      Sym(GoTlsReadFunc, TextAddr + 4, 4, 1),   \* its second half
      Sym(GoTlsReadFunc, TextAddr - 1, 4, 1),   \* starts below the section
      Sym(GoTlsReadFunc, TextAddr + 4, 8, 1),   \* ends beyond the section
      Sym(GoTlsReadFunc, TextAddr, 4, 2),       \* in the unreadable section
      Sym(GoTlsReadFunc, TextAddr, 4, 3),       \* section index out of range
      Sym(OtherCaseName, TextAddr, 8, 1) }      \* same name but for case

SymbolFiles ==
    {File(m, st, dy, FixedText(m)) :
        m \in {EM_X86_64, EM_AARCH64, EM_RISCV},
        st \in SeqsUpTo(Symbols, MaxSymtab), dy \in SeqsUpTo(Symbols, MaxDynsym)}

ElfFiles == CodeFiles \cup SymbolFiles

\* runtime.GOARCH of the build
Hosts == {"amd64", "arm64", "riscv64"}

(***************************************************************************)
(* State.                                                                  *)
(***************************************************************************)
VARIABLES
    GOARCH,        \* runtime.GOARCH
    pc,            \* where the call of Check stands
    Machine,       \* goElf.FileHeader.Machine of the file Check opened
    goElfArch,     \* gc.goElfArch
    goElf,         \* gc.goElf
    ReadTlsAddrs,  \* gc.ReadTlsAddrs
    err,           \* the error Check returns
    allSymbs,      \* findRetOffsets: allSymbs
    found,         \* findRetOffsets: found
    symbol,        \* findRetOffsets: symbol
    instHex,       \* findRetOffsets: instHex, the argument of decodeInstruction
    i,             \* decodeInstruction: the cursor
    offsets,       \* decodeInstruction: offsets
    decErr,        \* the error decodeInstruction returns
    calls          \* the reads and calls made so far, in order

vars == <<GOARCH, pc, Machine, goElfArch, goElf, ReadTlsAddrs, err, allSymbs,
          found, symbol, instHex, i, offsets, decErr, calls>>

resolver == <<allSymbs, found, symbol, instHex, i, offsets, decErr>>
scanner == <<instHex, i, offsets, decErr>>
config == <<GOARCH, Machine, goElfArch, goElf>>

\* NewGoTLSConfig: every field of the arguments zero
Init ==
    /\ GOARCH \in Hosts
    /\ pc = "Check"
    /\ Machine = 0
    /\ goElfArch = ""
    /\ goElf = NoFile
    /\ ReadTlsAddrs = <<>>
    /\ err = Nil
    /\ allSymbs = <<>>
    /\ found = FALSE
    /\ symbol = NoSymbol
    /\ instHex = <<>>
    /\ i = 0
    /\ offsets = <<>>
    /\ decErr = Nil
    /\ calls = <<>>

(***************************************************************************)
(* Check, lines 62-107, up to the call of findRetOffsets.                  *)
(***************************************************************************)
TlsCaptureModelText == "text"
TlsCaptureModelPcap == "pcap"
TlsCaptureModelPcapng == "pcapng"
TlsCaptureModelKey == "key"
TlsCaptureModelKeylog == "keylog"

\* checkModel: the error it returns (Check drops the model name)
checkModel(Model, Ifname) ==
    IF Model \in {TlsCaptureModelPcap, TlsCaptureModelPcapng} /\ Ifname = ""
    THEN ErrIfname ELSE Nil

\* the switch on goElf.FileHeader.Machine
ClassifyMachine(m) ==
    IF m = EM_AARCH64 THEN "arm64"
    ELSE IF m = EM_X86_64 THEN "amd64"
    ELSE "unsupport_arch"

\* the comparison inverted
ArchDiffers_Inverted(arch, host) == arch = host

\* goElfArch != runtime.GOARCH
ArchDiffers(arch, host) == arch # host

MismatchError(host, arch) == Err(MismatchMsg, <<host, arch>>)

\* the switch on goElfArch
ArchSupported(arch) == arch \in {"amd64", "arm64"}

UnsupportError(arch) == Err(UnsupportMsg, <<arch>>)

\* Check returns e before findRetOffsets is called
CheckReturns(e) ==
    /\ pc' = "done"
    /\ err' = e
    /\ UNCHANGED <<GOARCH, goElfArch, goElf, ReadTlsAddrs, resolver, calls>>

\* what os.Stat and elf.Open find at gc.Path
Paths == {"", "/usr/bin/app"}
Models == {TlsCaptureModelText, TlsCaptureModelPcap, TlsCaptureModelKey}
Ifnames == {"", "eth0"}
Found == {[kind |-> "missing"], [kind |-> "notelf"]} \cup {[kind |-> "elf", file |-> f] : f \in ElfFiles}

Check ==
    /\ pc = "Check"
    /\ \E Path \in Paths, Model \in Models, Ifname \in Ifnames, at \in Found :
        IF Path = "" THEN CheckReturns(ErrorGoBINNotFound) /\ UNCHANGED Machine
        ELSE IF checkModel(Model, Ifname) # Nil
             THEN CheckReturns(checkModel(Model, Ifname)) /\ UNCHANGED Machine
        ELSE IF at.kind = "missing" THEN CheckReturns(ErrStat) /\ UNCHANGED Machine
        ELSE IF at.kind = "notelf" THEN CheckReturns(ErrElfOpen) /\ UNCHANGED Machine
        ELSE LET arch == ClassifyMachine(at.file.Machine) IN
             /\ Machine' = at.file.Machine
             /\ IF ArchDiffers(arch, GOARCH) THEN CheckReturns(MismatchError(GOARCH, arch))
                ELSE IF ~ArchSupported(arch) THEN CheckReturns(UnsupportError(arch))
                ELSE /\ goElfArch' = arch
                     /\ goElf' = at.file
                     /\ pc' = "findRetOffsets"
                     /\ UNCHANGED <<GOARCH, ReadTlsAddrs, err, resolver, calls>>

(***************************************************************************)
(* findRetOffsets, lines 113-164.                                          *)
(***************************************************************************)
\* findRetOffsets returns (nil, e): Check stores nil and returns e
ResolveFails(e) ==
    /\ pc' = "done"
    /\ ReadTlsAddrs' = <<>>
    /\ err' = e

\* the dynamic table appended first
AllSymbs_DynamicFirst(goSymbs, goDynamicSymbs) == goDynamicSymbs \o goSymbs

\* allSymbs after the two appends
AllSymbs(goSymbs, goDynamicSymbs) == goSymbs \o goDynamicSymbs

\* names compared without regard to case (strings.EqualFold)
FoldCase(name) == IF name = GoTlsReadFunc THEN OtherCaseName ELSE name
NameMatches_IgnoreCase(name, symbolName) == FoldCase(name) = FoldCase(symbolName)

\* s.Name == symbolName
NameMatches(name, symbolName) == name = symbolName

\* the search loop: the index of the entry it stops at, 0 when it finds none
RECURSIVE SearchFrom(_, _, _)
SearchFrom(syms, symbolName, k) ==
    IF k > Len(syms) THEN 0
    ELSE IF NameMatches(syms[k].Name, symbolName) THEN k
    ELSE SearchFrom(syms, symbolName, k + 1)

Search(syms, symbolName) == SearchFrom(syms, symbolName, 1)

\* lines 113-143: read both tables, search
FindSymbol ==
    /\ pc = "findRetOffsets"
    /\ LET all == AllSymbs(goElf.Symtab, goElf.Dynsym)
           k == Search(all, GoTlsReadFunc)
       IN /\ allSymbs' = all
          /\ calls' = calls \o <<"Symbols", "DynamicSymbols">>
          /\ IF Len(all) = 0
             THEN ResolveFails(ErrNoSymbols) /\ UNCHANGED <<found, symbol>>
             ELSE IF k = 0
             THEN ResolveFails(ErrorSymbolNotFound) /\ UNCHANGED <<found, symbol>>
             ELSE /\ found' = TRUE
                  /\ symbol' = all[k]
                  /\ pc' = "section"
                  /\ UNCHANGED <<ReadTlsAddrs, err>>
    /\ UNCHANGED <<config, scanner>>

\* start := symbol.Value - section.Addr and end := start + symbol.Size, in uint64
Start(sym, section) == (sym.Value - section.Addr + UintMod) % UintMod
End(sym, section) == (Start(sym, section) + sym.Size) % UintMod

\* the bounds Go checks when it evaluates elfText[start:end]; Data() reads
\* the section into a slice as long as the section, so cap = len
SliceInRange(start, end, elfText) == start <= end /\ end <= Len(elfText)

\* a run-time panic: the call never returns
Panics(trail) ==
    /\ pc' = "panic"
    /\ calls' = calls \o trail
    /\ UNCHANGED <<ReadTlsAddrs, err, scanner>>

\* lines 145-158: the section, its data, the slice of the function
Extract ==
    /\ pc = "section"
    /\ IF symbol.Section >= Len(goElf.Sections)
       THEN Panics(<<"panic: index out of range">>)
       ELSE LET section == goElf.Sections[symbol.Section + 1]
                start == Start(symbol, section)
                end == End(symbol, section)
            IN IF ~section.ReadOK
               THEN /\ ResolveFails(ErrSectionData)
                    /\ calls' = Append(calls, "Data")
                    /\ UNCHANGED scanner
               ELSE IF ~SliceInRange(start, end, section.Data)
               THEN Panics(<<"Data", "panic: slice bounds out of range">>)
               ELSE /\ instHex' = Slice(section.Data, start, end)
                    /\ i' = 0
                    /\ offsets' = <<>>
                    /\ decErr' = Nil
                    /\ calls' = calls \o <<"Data", "decodeInstruction">>
                    /\ pc' = "decodeInstruction"
                    /\ UNCHANGED <<ReadTlsAddrs, err>>
    /\ UNCHANGED <<config, allSymbs, found, symbol>>

(***************************************************************************)
(* decodeInstruction, lines 167-191.                                       *)
(***************************************************************************)
\* the loop condition off by one
LoopCond_Inclusive(cursor, n) == cursor <= n

\* the loop condition
LoopCond(cursor, n) == cursor < n

\* the decoder of the architecture
Decode(arch, src) == IF arch = "amd64" THEN X86Decode(src) ELSE Arm64Decode(src)

\* the offset recorded after the cursor has moved
Record_AfterAdvance(offs, cursor, inst) ==
    IF inst.Op = "RET" THEN Append(offs, cursor + inst.Len) ELSE offs

\* if inst.Op == RET { offsets = append(offsets, i) }
Record(offs, cursor, inst) == IF inst.Op = "RET" THEN Append(offs, cursor) ELSE offs

\* the cursor moved one byte at a time on amd64
Advance_ByteWise(arch, cursor, inst) ==
    IF arch = "amd64" THEN cursor + 1 ELSE cursor + Arm64armInstSize

\* i += inst.Len on amd64, i += Arm64armInstSize on arm64
Advance(arch, cursor, inst) ==
    IF arch = "amd64" THEN cursor + inst.Len ELSE cursor + Arm64armInstSize

\* one iteration of the loop
ScanStep ==
    /\ pc = "decodeInstruction"
    /\ LoopCond(i, Len(instHex))
    /\ LET inst == Decode(goElfArch, From(instHex, i))
       IN IF inst.err # Nil
          THEN /\ offsets' = <<>>
               /\ decErr' = inst.err
               /\ pc' = "decoded"
               /\ UNCHANGED i
          ELSE /\ offsets' = Record(offsets, i, inst)
               /\ i' = Advance(goElfArch, i, inst)
               /\ UNCHANGED <<decErr, pc>>
    /\ UNCHANGED <<config, ReadTlsAddrs, err, allSymbs, found, symbol, instHex, calls>>

\* the loop ends: return offsets, nil
ScanExit ==
    /\ pc = "decodeInstruction"
    /\ ~LoopCond(i, Len(instHex))
    /\ pc' = "decoded"
    /\ UNCHANGED <<config, ReadTlsAddrs, err, resolver, calls>>

\* the empty result returned as a success
FindRetResult_NoEmptyCheck(offs, e) == <<offs, Nil>>

\* lines 159-163: offsets, _ = gc.decodeInstruction(instHex), then the result
FindRetResult(offs, e) ==
    IF Len(offs) = 0 THEN <<offs, ErrorNoRetFound>> ELSE <<offs, Nil>>

\* findRetOffsets returns and Check stores its result (lines 105-106)
FindRetReturns ==
    /\ pc = "decoded"
    /\ LET r == FindRetResult(offsets, decErr)
       IN /\ ReadTlsAddrs' = r[1]
          /\ err' = r[2]
    /\ pc' = "done"
    /\ UNCHANGED <<config, resolver, calls>>

Next == Check \/ FindSymbol \/ Extract \/ ScanStep \/ ScanExit \/ FindRetReturns

Spec == Init /\ [][Next]_vars

\* The for loop of decodeInstruction runs to its end on one goroutine: an
\* iteration that can be taken is taken, and so is the exit of the loop.
FairSpec == Spec /\ WF_vars(ScanStep) /\ WF_vars(ScanExit)

(***************************************************************************)
(* What the properties are stated in: the instruction sets as sets of      *)
(* encodings, and the returns of a body read off its instruction           *)
(* boundaries, without the decoders.                                       *)
(***************************************************************************)
Enc(bytes, ret) == [bytes |-> bytes, ret |-> ret]

Encodings(arch) ==
    IF arch = "amd64"
    THEN {Enc(<<144>>, FALSE), Enc(<<195>>, TRUE)}
         \cup {Enc(<<194, a, b>>, TRUE) : a \in CodeBytes, b \in CodeBytes}
         \cup {Enc(<<106, a>>, FALSE) : a \in CodeBytes}
    ELSE {Enc(Arm64Ret, TRUE), Enc(Arm64RetX1, TRUE), Enc(Arm64Nop, FALSE)}

StartsWith(body, e) ==
    Len(e.bytes) <= Len(body) /\ SubSeq(body, 1, Len(e.bytes)) = e.bytes

\* body is a concatenation of instructions of arch
RECURSIVE IsCode(_, _)
IsCode(arch, body) ==
    \/ Len(body) = 0
    \/ \E e \in Encodings(arch) :
          StartsWith(body, e) /\ IsCode(arch, From(body, Len(e.bytes)))

\* the start offsets of the returns of such a body, the body starting at base
RECURSIVE Returns(_, _, _)
Returns(arch, body, base) ==
    IF Len(body) = 0 THEN <<>>
    ELSE LET e == CHOOSE e \in Encodings(arch) : StartsWith(body, e)
         IN (IF e.ret THEN <<base>> ELSE <<>>)
            \o Returns(arch, From(body, Len(e.bytes)), base + Len(e.bytes))

StrictlyIncreasing(s) == \A j \in 1..(Len(s) - 1) : s[j] < s[j + 1]
Within(s, n) == \A j \in 1..Len(s) : 0 <= s[j] /\ s[j] < n
Has(s, x) == \E j \in 1..Len(s) : s[j] = x
Named(syms, name) == {j \in 1..Len(syms) : syms[j].Name = name}

\* the scan of decodeInstruction was entered, and has returned
Scanned == pc \in {"decoded", "done"} /\ Has(calls, "decodeInstruction")
\* findRetOffsets is past its search of the symbol tables
Searched == Has(calls, "Symbols")
\* the section a found symbol names exists and can be read
SectionReadable ==
    /\ found
    /\ symbol.Section < Len(goElf.Sections)
    /\ goElf.Sections[symbol.Section + 1].ReadOK
RangeValid ==
    LET section == goElf.Sections[symbol.Section + 1]
        start == Start(symbol, section)
        end == start + symbol.Size
    IN symbol.Value >= section.Addr /\ start <= end /\ end <= Len(section.Data)

(***************************************************************************)
(* C1: when the decoder fails at a cursor the scan reaches, the resolution *)
(* returns no offsets and its error is the decoder's error.                *)
(***************************************************************************)
C1_DecodeErrorPropagates ==
    (pc = "done" /\ decErr # Nil) => (ReadTlsAddrs = <<>> /\ err = decErr)

(***************************************************************************)
(* C2: a body scanned without a decode failure that holds no return makes  *)
(* the resolution fail with ErrorNoRetFound; a resolution that succeeds    *)
(* returns a non-empty list.                                               *)
(***************************************************************************)
C2_NoReturnFound ==
    /\ (pc = "done" /\ Scanned /\ decErr = Nil /\ Returns(goElfArch, instHex, 0) = <<>>)
          => (err = ErrorNoRetFound /\ ReadTlsAddrs = <<>>)
    /\ (pc = "done" /\ err = Nil) => Len(ReadTlsAddrs) > 0

C2_Witness ==
    /\ pc = "done" /\ Scanned /\ decErr = Nil
    /\ Len(instHex) > 0 /\ Returns(goElfArch, instHex, 0) = <<>>
    /\ err = ErrorNoRetFound

(***************************************************************************)
(* C3: during a scan and in its result the offsets are strictly increasing *)
(* and each lies in [0, len(instHex)).                                     *)
(***************************************************************************)
C3_Monotonic ==
    /\ StrictlyIncreasing(offsets) /\ Within(offsets, Len(instHex))
    /\ StrictlyIncreasing(ReadTlsAddrs) /\ Within(ReadTlsAddrs, Len(instHex))

C3_Witness ==
    /\ pc = "decodeInstruction" /\ Len(offsets) >= 2 /\ i < Len(instHex)

(***************************************************************************)
(* C4: for a body that is a concatenation of instructions the scan returns *)
(* exactly the start offsets of its return instructions, in order.         *)
(***************************************************************************)
C4_ExactReturns ==
    (Scanned /\ IsCode(goElfArch, instHex))
       => /\ decErr = Nil
          /\ offsets = Returns(goElfArch, instHex, 0)
          /\ pc = "done" => IF offsets = <<>> THEN err = ErrorNoRetFound
                            ELSE err = Nil /\ ReadTlsAddrs = offsets

C4_Witness ==
    /\ pc = "done" /\ goElfArch = "amd64"
    /\ instHex = <<144, 195, 195>> /\ ReadTlsAddrs = <<1, 2>>

(***************************************************************************)
(* C5: when the architecture of the file differs from the host's, Check    *)
(* fails with the mismatch error naming both, and nothing of the resolver  *)
(* has run: no table or section is read and no field is assigned.          *)
(***************************************************************************)
C5_MismatchRejected ==
    (Machine # 0 /\ ClassifyMachine(Machine) # GOARCH)
       => /\ pc = "done"
          /\ err = Err(MismatchMsg, <<GOARCH, ClassifyMachine(Machine)>>)
          /\ calls = <<>>
          /\ goElf = NoFile /\ goElfArch = "" /\ ReadTlsAddrs = <<>>

C5_Witness ==
    pc = "done" /\ Machine = EM_AARCH64 /\ GOARCH = "amd64"

(***************************************************************************)
(* C6: for a file whose machine is neither x86-64 nor AArch64, Check fails *)
(* with the 'unsupport CPU arch' error.                                    *)
(***************************************************************************)
C6_UnsupportedReported ==
    (pc = "done" /\ Machine \notin {0, EM_X86_64, EM_AARCH64})
       => err.msg = UnsupportMsg

(***************************************************************************)
(* C7: the symbol used is the first entry with the name in the static      *)
(* table followed by the dynamic table, taken as it stands in the table.   *)
(***************************************************************************)
C7_FirstMatchWins ==
    LET all == goElf.Symtab \o goElf.Dynsym
        hits == Named(all, GoTlsReadFunc)
    IN Searched =>
          /\ found <=> hits # {}
          /\ found => \E k \in hits : /\ symbol = all[k]
                                      /\ \A j \in hits : k <= j
          /\ (found /\ Named(goElf.Symtab, GoTlsReadFunc) # {})
                => \E k \in Named(goElf.Symtab, GoTlsReadFunc) : symbol = goElf.Symtab[k]

C7_Witness ==
    /\ pc = "section" /\ found
    /\ \E k \in Named(goElf.Symtab, GoTlsReadFunc), d \in Named(goElf.Dynsym, GoTlsReadFunc) :
          /\ goElf.Symtab[k].Value # goElf.Dynsym[d].Value
          /\ symbol = goElf.Symtab[k]
          /\ k > 1

(***************************************************************************)
(* C8: a name that no entry of either table carries makes the resolution   *)
(* fail with ErrorSymbolNotFound, no section read and no scan made.        *)
(***************************************************************************)
NotInTables ==
    /\ Searched
    /\ Named(goElf.Symtab \o goElf.Dynsym, GoTlsReadFunc) = {}

NothingRead == ~Has(calls, "Data") /\ ~Has(calls, "decodeInstruction")

C8_SymbolNotFound ==
    NotInTables => (pc = "done" /\ err = ErrorSymbolNotFound /\ NothingRead)

\* C8 as amended: the same, but when both tables are empty the error is
\* 'no symbols found'.
C8_SymbolNotFoundAmended ==
    NotInTables =>
       /\ pc = "done" /\ NothingRead /\ ReadTlsAddrs = <<>>
       /\ err = IF Len(goElf.Symtab) + Len(goElf.Dynsym) = 0
                THEN ErrNoSymbols ELSE ErrorSymbolNotFound

C8_Witness ==
    /\ NotInTables /\ pc = "done" /\ err = ErrorSymbolNotFound
    /\ Named(goElf.Symtab \o goElf.Dynsym, OtherCaseName) # {}

(***************************************************************************)
(* C9: a symbol whose range does not lie within the data of its section    *)
(* makes the extraction return an error: it never panics and never scans.  *)
(***************************************************************************)
C9_CorruptRangeReported ==
    (SectionReadable /\ ~RangeValid /\ pc # "section")
       => /\ pc = "done"
          /\ err.msg = "corrupt symbol range"
          /\ ~Has(calls, "decodeInstruction")

(***************************************************************************)
(* C10: the scan loop terminates.  The cursor starts at 0, every decoded   *)
(* instruction moves it forward (by the decoded length, at least 1, on     *)
(* amd64 and by 4 on arm64), no decode starts at or past the end, and the  *)
(* loop ends with the cursor at or past the end or with a decode error.    *)
(***************************************************************************)
ScanIteration ==
    /\ i < Len(instHex)
    /\ \/ /\ pc' = "decodeInstruction" /\ decErr' = Nil
          /\ IF goElfArch = "amd64" THEN i' >= i + 1 ELSE i' = i + 4
       \/ /\ pc' = "decoded" /\ decErr' # Nil

ScanEnd == i >= Len(instHex) /\ pc' = "decoded" /\ decErr' = Nil /\ i' = i

C10_ScanTerminates ==
    /\ [][(pc # "decodeInstruction" /\ pc' = "decodeInstruction") => i' = 0]_vars
    /\ [][pc = "decodeInstruction" => (ScanIteration \/ ScanEnd)]_vars
    /\ (pc = "decodeInstruction") ~> (pc = "decoded")

C10_Witness ==
    /\ pc = "decoded" /\ goElfArch = "arm64"
    /\ Len(instHex) % 4 # 0 /\ i >= 4 /\ decErr = ErrShort

====
